---- MODULE Spec2Model ----
(***************************************************************************)
(* The XP award engine of src/xp_agent.py: the /award_xp request handler,  *)
(* the Notion task store it reads and patches, the Groq classifier with    *)
(* its heuristic fallback, the XP calculator and the optional XP ledger.   *)
(*                                                                         *)
(* Text is a sequence of one-character strings.  Time is counted in whole  *)
(* hours on the IST clock (a naive due date is localised to IST on line    *)
(* 95, so due dates and now are instants of one clock).  The calculator    *)
(* only looks at the sign of due - now and at floor(|due - now| / 24), so  *)
(* every real-valued difference behaves like one of the whole hours next   *)
(* to it.                                                                  *)
(***************************************************************************)
EXTENDS Integers, Sequences, FiniteSets, TLC

VARIABLES
    notion_pages,        \* the Notion task database: sequence of pages, page id = position
    ledger,              \* the Notion XP ledger database: sequence of appended rows
    now,                 \* the IST clock, in hours
    groq_client,         \* TRUE iff the Groq client was constructed at start-up
    NOTION_XP_LEDGER_ID, \* TRUE iff the ledger database id is configured
    active,              \* the requests that arrive in this behaviour
    req                  \* per request: position in award_xp and its local variables

vars == <<notion_pages, ledger, now, groq_client, NOTION_XP_LEDGER_ID, active, req>>

\* ---------------------------------------------------------------- options
None == <<>>
Some(x) == <<x>>

Min(a, b) == IF a <= b THEN a ELSE b
Max(a, b) == IF a >= b THEN a ELSE b
Abs(a) == IF a >= 0 THEN a ELSE -a

\* ---------------------------------------------------------------- text
Whitespace == {" "}

\* str.lower() on the characters the model draws text from
LowerChar(c) ==
    CASE c = "A" -> "a"
      [] c = "B" -> "b"
      [] c = "C" -> "c"
      [] c = "W" -> "w"
      [] OTHER -> c

lower(s) == [i \in 1..Len(s) |-> LowerChar(s[i])]

RECURSIVE lstrip(_)
lstrip(s) ==
    IF s = <<>> THEN <<>>
    ELSE IF Head(s) \in Whitespace THEN lstrip(Tail(s)) ELSE s

RECURSIVE rstrip(_)
rstrip(s) ==
    IF s = <<>> THEN <<>>
    ELSE IF s[Len(s)] \in Whitespace THEN rstrip(SubSeq(s, 1, Len(s) - 1)) ELSE s

\* str.strip()
strip(s) == rstrip(lstrip(s))

\* str.split() without arguments: runs of whitespace separate, no empty tokens
RECURSIVE SplitFrom(_, _, _)
SplitFrom(s, cur, acc) ==
    IF s = <<>> THEN (IF cur = <<>> THEN acc ELSE Append(acc, cur))
    ELSE IF Head(s) \in Whitespace
         THEN SplitFrom(Tail(s), <<>>, IF cur = <<>> THEN acc ELSE Append(acc, cur))
         ELSE SplitFrom(Tail(s), Append(cur, Head(s)), acc)

split(s) == SplitFrom(s, <<>>, <<>>)

\* Python's  a in b  on strings (the empty string is in every string)
IsIn(a, b) ==
    \E i \in 0..(Len(b) - Len(a)) : SubSeq(b, i + 1, i + Len(a)) = a

\* ---------------------------------------------------------------- extractor
\* A raw page: id, Task (option of the title text), Context (option of text),
\* DueDate ([kind: absent | invalid | iso, at: hour]), XP (option), Status.
extract_task_summary(page) ==
    [ id       |-> page.id,
      title    |-> strip(IF page.Task = None THEN <<>> ELSE page.Task[1]),
      context  |-> IF page.Context = None THEN <<>> ELSE strip(page.Context[1]),
      due_date |-> IF page.DueDate.kind = "iso" THEN Some(page.DueDate.at) ELSE None,
      xp       |-> page.XP ]

\* ---------------------------------------------------------------- calculator
compute_xp_no_floor(due_date, now_ist) ==
    LET base_xp == 15 IN
    IF due_date = None THEN base_xp
    ELSE LET delta_hours == due_date[1] - now_ist IN
         IF delta_hours > 0
         THEN base_xp + Min(5, delta_hours \div 24)
         ELSE base_xp - (Abs(delta_hours) \div 24) * 3

compute_xp_bonus_uncapped(due_date, now_ist) ==
    LET base_xp == 15 IN
    IF due_date = None THEN base_xp
    ELSE LET delta_hours == due_date[1] - now_ist IN
         IF delta_hours > 0
         THEN Min(Max(1, base_xp + (delta_hours \div 24)), 50)
         ELSE Min(Max(1, Max(2, base_xp - (Abs(delta_hours) \div 24) * 3)), 50)

compute_xp_late_bonus(due_date, now_ist) ==
    LET base_xp == 15 IN
    IF due_date = None THEN base_xp
    ELSE LET delta_hours == due_date[1] - now_ist IN
         IF delta_hours > 0
         THEN Min(Max(1, base_xp + Min(5, delta_hours \div 24)), 50)
         ELSE Min(Max(1, Max(2, base_xp + 3 - (Abs(delta_hours) \div 24) * 3)), 50)

\* A bug: one bonus point per two days ahead instead of per day.
compute_xp_bonus_per_two_days(due_date, now_ist) ==
    LET base_xp == 15 IN
    IF due_date = None THEN base_xp
    ELSE LET delta_hours == due_date[1] - now_ist IN
         IF delta_hours > 0
         THEN Min(Max(1, base_xp + Min(5, delta_hours \div 48)), 50)
         ELSE Min(Max(1, Max(2, base_xp - (Abs(delta_hours) \div 24) * 3)), 50)

\* A bug: one penalty point per day late instead of three.
compute_xp_penalty_one(due_date, now_ist) ==
    LET base_xp == 15 IN
    IF due_date = None THEN base_xp
    ELSE LET delta_hours == due_date[1] - now_ist IN
         IF delta_hours > 0
         THEN Min(Max(1, base_xp + Min(5, delta_hours \div 24)), 50)
         ELSE Min(Max(1, Max(2, base_xp - (Abs(delta_hours) \div 24))), 50)

compute_xp_from_due(due_date, now_ist) ==
    LET base_xp == 15 IN
    IF due_date = None THEN base_xp
    ELSE LET delta_hours == due_date[1] - now_ist
             xp == IF delta_hours > 0
                   THEN LET bonus == Min(5, delta_hours \div 24) IN base_xp + bonus
                   ELSE LET days_late == Abs(delta_hours) \div 24
                            penalty   == days_late * 3
                        IN  Max(2, base_xp - penalty)
         IN  Min(Max(1, xp), 50)

\* ---------------------------------------------------------------- matcher
\* Lines 167-171: the score of one candidate against the lower-cased message.
heuristic_score(c, msg) ==
    (IF c.title # <<>> /\ IsIn(lower(c.title), msg) THEN 10 ELSE 0)
    + (IF c.context # <<>> /\ \E k \in DOMAIN split(c.context) :
                                 IsIn(lower(split(c.context)[k]), msg)
       THEN 3 ELSE 0)

\* Lines 165-173: the loop over the candidates; best is None or <<score, c>>.
RECURSIVE heuristic_loop(_, _, _, _)
heuristic_loop(candidates, msg, i, best) ==
    IF i > Len(candidates) THEN best
    ELSE LET c     == candidates[i]
             score == heuristic_score(c, msg)
         IN  IF score > 0 /\ (best = None \/ score > best[1])
             THEN heuristic_loop(candidates, msg, i + 1, <<score, c>>)
             ELSE heuristic_loop(candidates, msg, i + 1, best)

\* A bug the scenario of the spec would need: a word of the message found in the title.
heuristic_match_words_in_title(message, candidates) ==
    LET msg  == lower(message)
        hits == { i \in DOMAIN candidates :
                    \E k \in DOMAIN split(msg) :
                        IsIn(split(msg)[k], lower(candidates[i].title)) }
    IN  IF hits = {} THEN None
        ELSE LET i == CHOOSE j \in hits : \A h \in hits : j <= h
             IN  Some([task |-> candidates[i], reason |-> "Heuristic match"])

\* A bug: >= in the comparison of line 172, so the last of the tied candidates wins.
RECURSIVE heuristic_loop_last_wins(_, _, _, _)
heuristic_loop_last_wins(candidates, msg, i, best) ==
    IF i > Len(candidates) THEN best
    ELSE LET c     == candidates[i]
             score == heuristic_score(c, msg)
         IN  IF score > 0 /\ (best = None \/ score >= best[1])
             THEN heuristic_loop_last_wins(candidates, msg, i + 1, <<score, c>>)
             ELSE heuristic_loop_last_wins(candidates, msg, i + 1, best)

heuristic_match_last_wins(message, candidates) ==
    LET best == heuristic_loop_last_wins(candidates, lower(message), 1, None)
    IN  IF best # None
        THEN Some([task |-> best[2], reason |-> "Heuristic match"])
        ELSE None

\* Lines 163-176: the fallback heuristic.
heuristic_match(message, candidates) ==
    LET msg  == lower(message)
        best == heuristic_loop(candidates, msg, 1, None)
    IN  IF best # None
        THEN Some([task |-> best[2], reason |-> "Heuristic match"])
        ELSE None

\* What the classifier call of lines 146-157 can come to:
\*   raise     - the call raises (network error, timeout, API error)
\*   malformed - no JSON object in the text, or an index that int() rejects
\*   json      - a JSON object; index is int(data.get("index", 0)), reason is
\*               data.get("reason", "")
ClassifierReasons == {"", "r"}

ClassifierReplies(n) ==
    { [kind |-> "raise",     index |-> 0, reason |-> ""],
      [kind |-> "malformed", index |-> 0, reason |-> ""] }
    \cup { [kind |-> "json", index |-> k, reason |-> why] :
             k \in (-1)..(n + 1), why \in ClassifierReasons }

\* A bug: the index of the reply is used without the range check of line 158.
groq_match_task_unchecked(message, candidates, client, reply) ==
    IF candidates = <<>> THEN None
    ELSE IF client /\ reply.kind = "json"
         THEN Some([task   |-> candidates[Min(Max(1, reply.index), Len(candidates))],
                    reason |-> reply.reason])
         ELSE heuristic_match(message, candidates)

\* Lines 123-176.  client: groq_client is set; reply: what the classifier call
\* comes to when it is made.
groq_match_task(message, candidates, client, reply) ==
    IF candidates = <<>> THEN None
    ELSE IF client /\ reply.kind = "json"
                   /\ 0 <= reply.index - 1 /\ reply.index - 1 < Len(candidates)
         THEN Some([task |-> candidates[reply.index], reason |-> reply.reason])
         ELSE heuristic_match(message, candidates)

\* ---------------------------------------------------------------- inputs
MaxTasks      == 2     \* pages in the task database
MaxNow        == 1     \* hours the clock advances during a behaviour
MaxLateHours  == 270   \* calculator inputs: due dates up to this many hours before hour 0
MaxEarlyHours == 150   \* ... and up to this many hours after hour 0

WriteReport == <<"W","r","i","t","e"," ","r","e","p","o","r","t">>
CallClient  == <<"C","a","l","l"," ","c","l","i","e","n","t">>
FinishedTheReport ==
    <<"f","i","n","i","s","h","e","d"," ","t","h","e"," ","r","e","p","o","r","t">>

NoDue      == [kind |-> "absent", at |-> 0]
BadDue     == [kind |-> "invalid", at |-> 0]
DueAt(h)   == [kind |-> "iso", at |-> h]

RawPage(task, context, due, status) ==
    [Task |-> task, Context |-> context, DueDate |-> due, Status |-> status]

\* The raw records the task database is filled from.
PagePool ==
    { RawPage(Some(WriteReport), None, DueAt(2), "To Do"),
      RawPage(Some(CallClient), None, DueAt(48), "In Progress"),
      RawPage(None, Some(<<"b">>), NoDue, "To Do"),
      RawPage(Some(<<" "," ">>), Some(<<>>), BadDue, "To Do"),
      RawPage(Some(<<" ","A","b">>), Some(<<"c"," "," ","B">>), DueAt(-30), "To Do"),
      RawPage(Some(<<"A">>), Some(<<"q">>), DueAt(200), "Completed") }

\* The message texts a request can carry ("message" of the JSON body).
RawMessages ==
    { FinishedTheReport,
      <<"A","B"," ","c">>,
      <<" ","b"," ">>,
      <<"q">>,
      <<" ">> }

Sources == {"Parent Agent"}

OpenStatuses == {"To Do", "In Progress"}

ReqIds == {1, 2}

Injective(f) == \A i, j \in DOMAIN f : f[i] = f[j] => i = j

Databases(pool, n) ==
    { [i \in DOMAIN f |-> [id |-> i, Task |-> f[i].Task, Context |-> f[i].Context,
                           DueDate |-> f[i].DueDate, XP |-> None,
                           Status |-> f[i].Status]] :
        f \in { g \in UNION { [1..k -> pool] : k \in 0..n } : Injective(g) } }

\* ---------------------------------------------------------------- requests
IdleReq ==
    [ pc         |-> "idle",
      message    |-> <<>>,
      source     |-> "",
      pages      |-> None,
      tasks      |-> <<>>,
      reply      |-> None,
      match      |-> None,
      xp         |-> None,
      scored_at  |-> None,
      patch_resp |-> None,
      logged     |-> "not called",
      calls      |-> {},
      resp       |-> None ]

Respond(r, req_r, response) ==
    req' = [req EXCEPT ![r] = [req_r EXCEPT !.pc = "done", !.resp = Some(response)]]

Init ==
    /\ notion_pages \in Databases(PagePool, MaxTasks)
    /\ ledger = <<>>
    /\ now = 0
    /\ groq_client \in BOOLEAN
    /\ NOTION_XP_LEDGER_ID \in BOOLEAN
    /\ active = {1}
    /\ req = [r \in ReqIds |-> IdleReq]

\* Lines 210-216: the body is read; an empty message is answered 400.
Receive(r) ==
    /\ r \in active
    /\ req[r].pc = "idle"
    /\ \E raw \in RawMessages, src \in Sources :
         LET message == strip(raw)
             fresh   == [IdleReq EXCEPT !.message = message, !.source = src]
         IN  IF message = <<>>
             THEN Respond(r, fresh, [code |-> 400, error |-> "Missing 'message'"])
             ELSE req' = [req EXCEPT ![r] = [fresh EXCEPT !.pc = "received"]]
    /\ UNCHANGED <<notion_pages, ledger, now, groq_client, NOTION_XP_LEDGER_ID, active>>

\* Lines 40-53: the pages whose Status is To Do or In Progress, in database order.
notion_query_open_tasks(pages) ==
    SelectSeq(pages, LAMBDA p : p.Status \in OpenStatuses)

\* A bug: the empty check of lines 220-221 is missing.
TasksFetched_no_empty_check(r, pages) ==
    LET tasks == [i \in DOMAIN pages |-> extract_task_summary(pages[i])]
    IN  req' = [req EXCEPT ![r] = [@ EXCEPT !.pc = "fetched", !.pages = Some(pages),
                                            !.tasks = tasks,
                                            !.calls = @ \cup {"query"}]]

\* Lines 219-221: what award_xp does with the pages the query returned.
TasksFetched(r, pages) ==
    LET tasks == [i \in DOMAIN pages |-> extract_task_summary(pages[i])]
        req_r == [req[r] EXCEPT !.pages = Some(pages), !.tasks = tasks,
                                !.calls = @ \cup {"query"}]
    IN  IF tasks = <<>>
        THEN Respond(r, req_r, [code |-> 200, status |-> "no_open_tasks"])
        ELSE req' = [req EXCEPT ![r] = [req_r EXCEPT !.pc = "fetched"]]

\* Lines 218-221, and 246-248 when the query raises (raise_for_status, network error).
Fetch(r) ==
    /\ req[r].pc = "received"
    /\ \E ok \in BOOLEAN :
         IF ok
         THEN TasksFetched(r, notion_query_open_tasks(notion_pages))
         ELSE Respond(r, [req[r] EXCEPT !.calls = @ \cup {"query"}],
                      [code |-> 500, error |-> "query"])
    /\ UNCHANGED <<notion_pages, ledger, now, groq_client, NOTION_XP_LEDGER_ID, active>>

\* A bug: a none result of the matcher is answered as a failure.
Match_none_is_error(r) ==
    /\ req[r].pc = "fetched"
    /\ LET called == groq_client /\ req[r].tasks # <<>> IN
       \E reply \in (IF called THEN ClassifierReplies(Len(req[r].tasks))
                               ELSE {[kind |-> "none", index |-> 0, reason |-> ""]}) :
         LET match == groq_match_task(req[r].message, req[r].tasks, groq_client, reply)
             req_r == [req[r] EXCEPT
                         !.reply = IF called THEN Some(reply) ELSE None,
                         !.calls = IF called THEN @ \cup {"classifier"} ELSE @,
                         !.match = match]
         IN  IF match = None
             THEN Respond(r, req_r, [code |-> 500, error |-> "no match"])
             ELSE req' = [req EXCEPT ![r] = [req_r EXCEPT !.pc = "matched"]]
    /\ UNCHANGED <<notion_pages, ledger, now, groq_client, NOTION_XP_LEDGER_ID, active>>

\* Lines 227-229: the matcher runs; the classifier is called once when the
\* client exists and there are candidates (line 144).
Match(r) ==
    /\ req[r].pc = "fetched"
    /\ LET called == groq_client /\ req[r].tasks # <<>> IN
       \E reply \in (IF called THEN ClassifierReplies(Len(req[r].tasks))
                               ELSE {[kind |-> "none", index |-> 0, reason |-> ""]}) :
         LET match == groq_match_task(req[r].message, req[r].tasks, groq_client, reply)
             req_r == [req[r] EXCEPT
                         !.reply = IF called THEN Some(reply) ELSE None,
                         !.calls = IF called THEN @ \cup {"classifier"} ELSE @,
                         !.match = match]
         IN  IF match = None
             THEN Respond(r, req_r, [code |-> 200, status |-> "no_match",
                                     message |-> "No matching task found"])
             ELSE req' = [req EXCEPT ![r] = [req_r EXCEPT !.pc = "matched"]]
    /\ UNCHANGED <<notion_pages, ledger, now, groq_client, NOTION_XP_LEDGER_ID, active>>

\* Line 233: the calculator reads the clock (line 89) and scores the matched task.
Score(r) ==
    /\ req[r].pc = "matched"
    /\ LET matched_task == req[r].match[1].task IN
       req' = [req EXCEPT ![r] = [@ EXCEPT
                 !.pc        = "scored",
                 !.xp        = Some(compute_xp_from_due(matched_task.due_date, now)),
                 !.scored_at = Some(now),
                 !.calls     = @ \cup {"calculator"}]]
    /\ UNCHANGED <<notion_pages, ledger, now, groq_client, NOTION_XP_LEDGER_ID, active>>

\* A bug for this code, a guard for another: a page that is already Completed
\* keeps the XP of the first patch (first write wins).
patch_notion_task_first_write_wins(pages, page_id, xp) ==
    IF pages[page_id].Status = "Completed"
    THEN pages
    ELSE [pages EXCEPT ![page_id] = [@ EXCEPT !.XP = Some(xp), !.Status = "Completed"]]

\* Lines 109-120 on the store's side: XP is set and Status becomes Completed.
patch_notion_task(pages, page_id, xp) ==
    [pages EXCEPT ![page_id] = [@ EXCEPT !.XP = Some(xp), !.Status = "Completed"]]

\* A bug: the failure of the patch is swallowed and the request goes on.
Patch_failure_swallowed(r) ==
    /\ req[r].pc = "scored"
    /\ LET matched_task == req[r].match[1].task
           xp           == req[r].xp[1]
       IN  \E ok \in BOOLEAN :
             IF ok
             THEN /\ notion_pages' = patch_notion_task(notion_pages, matched_task.id, xp)
                  /\ req' = [req EXCEPT ![r] = [@ EXCEPT
                               !.pc         = "persisted",
                               !.patch_resp = Some(notion_pages'[matched_task.id]),
                               !.calls      = @ \cup {"patch"}]]
             ELSE /\ UNCHANGED notion_pages
                  /\ req' = [req EXCEPT ![r] = [@ EXCEPT
                               !.pc    = "persisted",
                               !.calls = @ \cup {"patch"}]]
    /\ UNCHANGED <<ledger, now, groq_client, NOTION_XP_LEDGER_ID, active>>

\* Line 234, and 246-248 when the patch raises (raise_for_status, network error).
Patch(r) ==
    /\ req[r].pc = "scored"
    /\ LET matched_task == req[r].match[1].task
           xp           == req[r].xp[1]
       IN  \E ok \in BOOLEAN :
             IF ok
             THEN /\ notion_pages' = patch_notion_task(notion_pages, matched_task.id, xp)
                  /\ req' = [req EXCEPT ![r] = [@ EXCEPT
                               !.pc         = "persisted",
                               !.patch_resp = Some(notion_pages'[matched_task.id]),
                               !.calls      = @ \cup {"patch"}]]
             ELSE /\ UNCHANGED notion_pages
                  /\ Respond(r, [req[r] EXCEPT !.calls = @ \cup {"patch"}],
                             [code |-> 500, error |-> "patch"])
    /\ UNCHANGED <<ledger, now, groq_client, NOTION_XP_LEDGER_ID, active>>

\* Lines 237-244: the award-made response.
XPAwarded(req_r) ==
    [ code          |-> 200,
      status        |-> "XP Awarded",
      matched_task  |-> req_r.match[1].task.title,
      reason        |-> req_r.match[1].reason,
      xp            |-> req_r.xp[1],
      notion_id     |-> req_r.match[1].task.id,
      notion_update |-> req_r.patch_resp[1] ]

\* What the POST of line 193 can come to.
LedgerOutcomes == {"created", "non 2xx", "exception"}

\* A bug: a ledger failure is raised to award_xp, which answers 500.
Log_failure_raised(r) ==
    /\ req[r].pc = "persisted"
    /\ LET matched_task == req[r].match[1].task
           xp           == req[r].xp[1]
       IN  IF ~NOTION_XP_LEDGER_ID
           THEN /\ UNCHANGED ledger
                /\ Respond(r, [req[r] EXCEPT !.logged = "None"],
                           [code |-> 500, error |-> "ledger"])
           ELSE \E outcome \in LedgerOutcomes :
                  LET req_r == [req[r] EXCEPT
                                  !.calls  = @ \cup {"ledger"},
                                  !.logged = IF outcome = "created" THEN "True" ELSE "False"]
                  IN  /\ ledger' = IF outcome = "created"
                                   THEN Append(ledger, [Action    |-> matched_task.title,
                                                        XPEarned  |-> xp,
                                                        Source    |-> req[r].source,
                                                        Timestamp |-> now])
                                   ELSE ledger
                      /\ IF outcome = "created"
                         THEN Respond(r, req_r, XPAwarded(req_r))
                         ELSE Respond(r, req_r, [code |-> 500, error |-> "ledger"])
    /\ UNCHANGED <<notion_pages, now, groq_client, NOTION_XP_LEDGER_ID, active>>

\* Lines 235-244 with log_to_ledger (179-199): the ledger row is posted when the
\* ledger is configured, whatever comes of it the award-made response is returned.
Log(r) ==
    /\ req[r].pc = "persisted"
    /\ LET matched_task == req[r].match[1].task
           xp           == req[r].xp[1]
       IN  IF ~NOTION_XP_LEDGER_ID
           THEN /\ UNCHANGED ledger
                /\ LET req_r == [req[r] EXCEPT !.logged = "None"]
                   IN  Respond(r, req_r, XPAwarded(req_r))
           ELSE \E outcome \in LedgerOutcomes :
                  LET req_r == [req[r] EXCEPT
                                  !.calls  = @ \cup {"ledger"},
                                  !.logged = IF outcome = "created" THEN "True" ELSE "False"]
                  IN  /\ ledger' = IF outcome = "created"
                                   THEN Append(ledger, [Action    |-> matched_task.title,
                                                        XPEarned  |-> xp,
                                                        Source    |-> req[r].source,
                                                        Timestamp |-> now])
                                   ELSE ledger
                      /\ Respond(r, req_r, XPAwarded(req_r))
    /\ UNCHANGED <<notion_pages, now, groq_client, NOTION_XP_LEDGER_ID, active>>

\* Time passes between the steps of a request.
Tick ==
    /\ now < MaxNow
    /\ now' = now + 1
    /\ UNCHANGED <<notion_pages, ledger, groq_client, NOTION_XP_LEDGER_ID, active, req>>

Next ==
    \/ \E r \in ReqIds : Receive(r)
    \/ \E r \in ReqIds : Fetch(r)
    \/ \E r \in ReqIds : Match(r)
    \/ \E r \in ReqIds : Score(r)
    \/ \E r \in ReqIds : Patch(r)
    \/ \E r \in ReqIds : Log(r)
    \/ Tick

Spec == Init /\ [][Next]_vars

\* The calculator over every due date of the range: one open task that the
\* message "q" names, due at any hour of the range or without a due date.
CalcDues == {NoDue} \cup { DueAt(h) : h \in (-MaxLateHours)..MaxEarlyHours }

InitCalc ==
    /\ \E due \in CalcDues :
         notion_pages = << [id |-> 1, Task |-> Some(<<"q">>), Context |-> None,
                            DueDate |-> due, XP |-> None, Status |-> "To Do"] >>
    /\ ledger = <<>>
    /\ now = 0
    /\ groq_client \in BOOLEAN
    /\ NOTION_XP_LEDGER_ID \in BOOLEAN
    /\ active = {1}
    /\ req = [r \in ReqIds |-> IdleReq]

SpecCalc == InitCalc /\ [][Next]_vars

\* Two requests in flight at once (the server handles each request in a
\* thread of its own) over a database of at most MaxTasks pages of this pool.
ConcPool ==
    { RawPage(Some(<<"q">>), None, DueAt(24), "To Do"),
      RawPage(Some(<<"A","b">>), Some(<<"b">>), NoDue, "Completed") }

InitConc ==
    /\ notion_pages \in Databases(ConcPool, MaxTasks)
    /\ ledger = <<>>
    /\ now = 0
    /\ groq_client \in BOOLEAN
    /\ NOTION_XP_LEDGER_ID \in BOOLEAN
    /\ active = ReqIds
    /\ req = [r \in ReqIds |-> IdleReq]

SpecConc == InitConc /\ [][Next]_vars

\* ================================================================ claims
NoMatchResponse ==
    [code |-> 200, status |-> "no_match", message |-> "No matching task found"]

\* The request made the patch call and the call failed.
PatchFailed(r) == "patch" \in req[r].calls /\ req[r].patch_resp = None

\* The request made the patch call and the store acknowledged it.
PatchSucceeded(r) == req[r].patch_resp # None

\* C1: a request whose store patch fails after a match ends in a failure
\* response; it never attempts the ledger append and emits no award-made response.
C1_PatchFailureIsFatal ==
    \A r \in ReqIds :
        PatchFailed(r) =>
            /\ req[r].pc = "done"
            /\ req[r].resp = Some([code |-> 500, error |-> "patch"])
            /\ "ledger" \notin req[r].calls
            /\ req[r].logged = "not called"

C1_Witness ==
    \E r \in ReqIds :
        /\ PatchFailed(r)
        /\ req[r].match # None
        /\ NOTION_XP_LEDGER_ID
        /\ req[r].pc = "done"

\* C2: after a successful store patch the response is the award-made response
\* with the matched task's id and title, the computed score and the match's
\* justification, whatever became of the ledger logging.
C2_LedgerFailureKeepsOutcome ==
    \A r \in ReqIds :
        (PatchSucceeded(r) /\ req[r].pc = "done") =>
            /\ req[r].resp # None
            /\ req[r].resp[1].code = 200
            /\ req[r].resp[1].status = "XP Awarded"
            /\ req[r].resp[1].notion_id = req[r].match[1].task.id
            /\ req[r].resp[1].matched_task = req[r].match[1].task.title
            /\ req[r].resp[1].xp = req[r].xp[1]
            /\ req[r].resp[1].reason = req[r].match[1].reason

C2_Witness ==
    \E r \in ReqIds :
        /\ PatchSucceeded(r)
        /\ req[r].pc = "done"
        /\ "ledger" \in req[r].calls
        /\ req[r].logged = "False"
        /\ req[r].resp[1].status = "XP Awarded"

\* The matcher has run for the request.
Matched(r) == req[r].pages # None /\ req[r].tasks # <<>> /\ req[r].pc # "fetched"

\* The classifier gave the matcher nothing it can use: no client, a raised
\* call, a malformed response, or an index outside [1, length(candidates)].
ClassifierFailed(r) ==
    \/ req[r].reply = None
    \/ req[r].reply[1].kind \in {"raise", "malformed"}
    \/ req[r].reply[1].index \notin 1..Len(req[r].tasks)

\* C3: whenever the classifier is unavailable, raises, answers malformed or
\* answers an index out of range, the matcher returns the heuristic's result,
\* and a none result ends the request in the no-match response, not a failure.
C3_ClassifierFailureFallsBack ==
    \A r \in ReqIds :
        (Matched(r) /\ ClassifierFailed(r)) =>
            /\ req[r].match = heuristic_match(req[r].message, req[r].tasks)
            /\ req[r].match = None =>
                   (req[r].pc = "done" /\ req[r].resp = Some(NoMatchResponse))
            /\ req[r].match # None /\ req[r].pc = "done" =>
                   \/ PatchFailed(r) /\ req[r].resp = Some([code |-> 500, error |-> "patch"])
                   \/ PatchSucceeded(r) /\ req[r].resp[1].status = "XP Awarded"

C3_Witness ==
    \E r \in ReqIds :
        /\ Matched(r)
        /\ req[r].reply # None
        /\ req[r].reply[1].kind = "json"
        /\ req[r].reply[1].index = Len(req[r].tasks) + 1
        /\ req[r].match # None
        /\ req[r].match[1].reason = "Heuristic match"

\* C10: when the query returns no open task the request ends in the
\* no-open-tasks response and none of the classifier, the calculator, the
\* store patch and the ledger append is invoked.
C10_NoOpenTasks ==
    \A r \in ReqIds :
        req[r].pages = Some(<<>>) =>
            /\ req[r].pc = "done"
            /\ req[r].resp = Some([code |-> 200, status |-> "no_open_tasks"])
            /\ req[r].calls \cap {"classifier", "calculator", "patch", "ledger"} = {}
            /\ req[r].match = None /\ req[r].xp = None

C10_Witness ==
    \E r \in ReqIds :
        /\ req[r].pages = Some(<<>>)
        /\ req[r].pc = "done"
        /\ groq_client
        /\ NOTION_XP_LEDGER_ID
        /\ Len(notion_pages) > 0

\* ---------------------------------------------------------------- C4, C5
\* The heuristic decided the match of the request.
OnHeuristicPath(r) == Matched(r) /\ ClassifierFailed(r)

TitleIsSubstring(c, message) == IsIn(lower(c.title), lower(message))

ContextTokenAppears(c, message) ==
    \E k \in DOMAIN split(c.context) : IsIn(lower(split(c.context)[k]), lower(message))

\* The score as the claim words it.
ClaimedScore(c, message) ==
    (IF TitleIsSubstring(c, message) THEN 10 ELSE 0)
    + (IF ContextTokenAppears(c, message) THEN 3 ELSE 0)

\* The score with the title counted only when it is not empty.
NonEmptyTitleScore(c, message) ==
    (IF c.title # <<>> /\ TitleIsSubstring(c, message) THEN 10 ELSE 0)
    + (IF ContextTokenAppears(c, message) THEN 3 ELSE 0)

\* match is the earliest candidate of the highest positive score under the
\* scores sc[i], and none when every score is zero.
SelectsEarliestBest(match, candidates, sc) ==
    IF \A i \in DOMAIN candidates : sc[i] = 0
    THEN match = None
    ELSE /\ match # None
         /\ match[1].reason = "Heuristic match"
         /\ \E i \in DOMAIN candidates :
              /\ match[1].task = candidates[i]
              /\ sc[i] > 0
              /\ \A j \in DOMAIN candidates : sc[j] <= sc[i]
              /\ \A j \in 1..(i - 1) : sc[j] < sc[i]

\* Every fetched record of the request carries the title field.
AllTitled(r) == \A k \in DOMAIN req[r].pages[1] : req[r].pages[1][k].Task # None

\* C4 as stated, on candidates whose records all carry a title field: +10 for
\* a title that is a substring of the message, +3 for a context token in the
\* message, the earliest candidate of the highest positive score is returned,
\* none when all score zero.
C4_HeuristicAsClaimed ==
    \A r \in ReqIds :
        (OnHeuristicPath(r) /\ AllTitled(r)) =>
            SelectsEarliestBest(req[r].match, req[r].tasks,
                [i \in DOMAIN req[r].tasks |-> ClaimedScore(req[r].tasks[i], req[r].message)])

\* C4 amended: the +10 is given only to a non-empty title; the rest as stated.
C4_HeuristicNonEmptyTitle ==
    \A r \in ReqIds :
        OnHeuristicPath(r) =>
            SelectsEarliestBest(req[r].match, req[r].tasks,
                [i \in DOMAIN req[r].tasks |->
                    NonEmptyTitleScore(req[r].tasks[i], req[r].message)])

\* Two candidates tie at the highest score and the first one is returned.
C4_Witness ==
    \E r \in ReqIds :
        /\ OnHeuristicPath(r)
        /\ Len(req[r].tasks) = 2
        /\ NonEmptyTitleScore(req[r].tasks[1], req[r].message) = 3
        /\ NonEmptyTitleScore(req[r].tasks[2], req[r].message) = 3
        /\ req[r].match # None
        /\ req[r].match[1].task = req[r].tasks[1]

\* The scenario: "Write report" due in 2h and "Call client" due in 48h, no
\* context on either, no classifier, message "finished the report".
ReportScenario(r) ==
    /\ ~groq_client
    /\ Matched(r)
    /\ req[r].message = FinishedTheReport
    /\ Len(req[r].tasks) = 2
    /\ req[r].tasks[1].title = WriteReport /\ req[r].tasks[1].context = <<>>
    /\ req[r].tasks[1].due_date = Some(2)
    /\ req[r].tasks[2].title = CallClient /\ req[r].tasks[2].context = <<>>
    /\ req[r].tasks[2].due_date = Some(48)
    /\ req[r].pc = "done"

\* C5 as stated: in the scenario the heuristic selects "Write report" and the
\* awarded score is 15.
C5_ScenarioAwards15 ==
    \A r \in ReqIds :
        ReportScenario(r) =>
            /\ req[r].match # None
            /\ req[r].match[1].task.title = WriteReport
            /\ req[r].xp = Some(15)

\* C5 amended: in the scenario no title is a substring of the message, the
\* heuristic returns none and the request ends in the no-match response with
\* no score computed.
C5_ScenarioNoMatch ==
    \A r \in ReqIds :
        ReportScenario(r) =>
            /\ req[r].match = None
            /\ req[r].xp = None
            /\ req[r].resp = Some(NoMatchResponse)

C5_Witness ==
    \E r \in ReqIds : ReportScenario(r) /\ req[r].resp = Some(NoMatchResponse)

\* ---------------------------------------------------------------- C6
\* C6: a raw record without the title field is skipped by the extractor: it
\* is never among the candidates given to the matcher and is never patched,
\* and the request goes on with the well-formed records.
C6_MalformedRecordsSkipped ==
    \A r \in ReqIds :
        /\ req[r].pages # None =>
             \A i \in DOMAIN req[r].tasks :
                 \E k \in DOMAIN req[r].pages[1] :
                     /\ req[r].pages[1][k].id = req[r].tasks[i].id
                     /\ req[r].pages[1][k].Task # None
        /\ PatchSucceeded(r) => notion_pages[req[r].match[1].task.id].Task # None

\* ---------------------------------------------------------------- C7, C8, C9
\* The reference formula of the claim.
ReferenceScore(due_date, now_ist) ==
    IF due_date = None THEN 15
    ELSE IF due_date[1] > now_ist
         THEN 15 + Min(5, (due_date[1] - now_ist) \div 24)
         ELSE Max(2, 15 - 3 * ((now_ist - due_date[1]) \div 24))

\* The request has run the calculator.
Scored(r) == req[r].xp # None

\* C7: the computed score equals the reference formula for the matched
\* task's due date and the time of the computation.
C7_ScoreEqualsReference ==
    \A r \in ReqIds :
        Scored(r) =>
            req[r].xp[1] = ReferenceScore(req[r].match[1].task.due_date,
                                          req[r].scored_at[1])

\* A task due more than five days ahead has been scored (the capped bonus).
C7_Witness ==
    \E r \in ReqIds :
        /\ Scored(r)
        /\ req[r].match[1].task.due_date # None
        /\ req[r].match[1].task.due_date[1] - req[r].scored_at[1] >= 144
        /\ req[r].xp[1] = 20

\* C8: every score patched onto a task, appended to the ledger or returned
\* in an award-made response is an integer of [1, 50].
C8_AwardsWithinRange ==
    /\ \A i \in DOMAIN notion_pages :
         notion_pages[i].XP # None => notion_pages[i].XP[1] \in 1..50
    /\ \A i \in DOMAIN ledger : ledger[i].XPEarned \in 1..50
    /\ \A r \in ReqIds :
         (PatchSucceeded(r) /\ req[r].pc = "done") => req[r].resp[1].xp \in 1..50

\* A task more than ten days overdue has been awarded: patched, logged, answered.
C8_Witness ==
    \E r \in ReqIds :
        /\ PatchSucceeded(r) /\ req[r].pc = "done"
        /\ req[r].match[1].task.due_date # None
        /\ req[r].scored_at[1] - req[r].match[1].task.due_date[1] > 240
        /\ req[r].resp[1].xp = 2
        /\ notion_pages[req[r].match[1].task.id].XP = Some(2)
        /\ Len(ledger) > 0 /\ ledger[Len(ledger)].XPEarned = 2

\* C9: for the clock value of the computation, every earlier due date scores
\* at most the computed score and every later due date at least it.
C9_ScoreMonotone ==
    \A r \in ReqIds :
        (Scored(r) /\ req[r].pc = "scored" /\ req[r].match[1].task.due_date # None) =>
            LET d   == req[r].match[1].task.due_date[1]
                at  == req[r].scored_at[1]
            IN  \A e \in (-MaxLateHours)..MaxEarlyHours :
                    /\ e < d => compute_xp_from_due(Some(e), at) <= req[r].xp[1]
                    /\ e > d => req[r].xp[1] <= compute_xp_from_due(Some(e), at)

\* An overdue task has been scored, below what a task not yet due scores.
C9_Witness ==
    \E r \in ReqIds :
        /\ Scored(r)
        /\ req[r].match[1].task.due_date # None
        /\ req[r].match[1].task.due_date[1] <= req[r].scored_at[1] - 24
        /\ req[r].xp[1] < compute_xp_from_due(Some(req[r].scored_at[1] + 1),
                                              req[r].scored_at[1])

\* ---------------------------------------------------------------- C11
\* C11: when the matcher returns none for a non-empty candidate list the
\* request ends in the no-match response (a success), nothing is scored,
\* patched or appended to the ledger, and the store's tasks are as the
\* request fetched them.
C11_NoMatchLeavesStore ==
    \A r \in ReqIds :
        (Matched(r) /\ req[r].match = None) =>
            /\ req[r].pc = "done"
            /\ req[r].resp = Some(NoMatchResponse)
            /\ req[r].calls \cap {"calculator", "patch", "ledger"} = {}
            /\ req[r].xp = None /\ req[r].patch_resp = None
            /\ ledger = <<>>
            /\ notion_query_open_tasks(notion_pages) = req[r].pages[1]
            /\ \A i \in DOMAIN notion_pages : notion_pages[i].XP = None

\* A request with two candidates, a classifier that raised and a message that
\* names neither has ended without a match.
C11_Witness ==
    \E r \in ReqIds :
        /\ Matched(r) /\ req[r].match = None
        /\ Len(req[r].tasks) = 2
        /\ req[r].reply # None /\ req[r].reply[1].kind = "raise"
        /\ NOTION_XP_LEDGER_ID
        /\ req[r].pc = "done"

\* ---------------------------------------------------------------- C12, C13
\* C12: a task due more than 24 hours after the time of the computation
\* scores in [16, 20].
C12_EarlyScoreRange ==
    \A r \in ReqIds :
        (/\ Scored(r)
         /\ req[r].match[1].task.due_date # None
         /\ req[r].match[1].task.due_date[1] - req[r].scored_at[1] > 24) =>
            req[r].xp[1] \in 16..20

\* A task due 25 hours ahead has been scored 16.
C12_Witness ==
    \E r \in ReqIds :
        /\ Scored(r)
        /\ req[r].match[1].task.due_date # None
        /\ req[r].match[1].task.due_date[1] - req[r].scored_at[1] = 25
        /\ req[r].xp[1] = 16

\* C13: a task due more than 10 days (240 hours) before the time of the
\* computation scores exactly 2.
C13_LateScoreFloor ==
    \A r \in ReqIds :
        (/\ Scored(r)
         /\ req[r].match[1].task.due_date # None
         /\ req[r].scored_at[1] - req[r].match[1].task.due_date[1] > 240) =>
            req[r].xp[1] = 2

\* A task 241 hours overdue has been scored 2.
C13_Witness ==
    \E r \in ReqIds :
        /\ Scored(r)
        /\ req[r].match[1].task.due_date # None
        /\ req[r].scored_at[1] - req[r].match[1].task.due_date[1] = 241
        /\ req[r].xp[1] = 2

\* ---------------------------------------------------------------- C14
\* The step in which the store acknowledges the patch of request r.
PatchAcknowledged(r) == req[r].pc = "scored" /\ req'[r].pc = "persisted"

\* Both requests are answered after an acknowledged patch of one and the same task.
BothPatchedSameTask(rq, r1, r2) ==
    /\ r1 # r2
    /\ rq[r1].pc = "done" /\ rq[r1].patch_resp # None
    /\ rq[r2].pc = "done" /\ rq[r2].patch_resp # None
    /\ rq[r1].match[1].task.id = rq[r2].match[1].task.id

AwardMadeFor(rq, r) ==
    /\ rq[r].resp # None
    /\ rq[r].resp[1].code = 200
    /\ rq[r].resp[1].status = "XP Awarded"
    /\ rq[r].resp[1].notion_id = rq[r].match[1].task.id
    /\ rq[r].resp[1].xp = rq[r].xp[1]

\* C14: concurrent requests for one task are not coordinated.  Every
\* acknowledged patch writes the request's own score onto the task and leaves
\* the other pages alone, whatever Status and XP the task had before (also
\* when the other request has completed it already), so the stored XP is that
\* of the patch applied last; and two requests that both patched the same
\* task are both answered award-made for it.
C14_ConcurrentAwardsUncoordinated ==
    [][ /\ \A r \in ReqIds :
             PatchAcknowledged(r) =>
                 LET id == req[r].match[1].task.id IN
                 /\ notion_pages'[id].XP = req[r].xp
                 /\ notion_pages'[id].Status = "Completed"
                 /\ req'[r].patch_resp = Some(notion_pages'[id])
                 /\ \A k \in DOMAIN notion_pages : k # id => notion_pages'[k] = notion_pages[k]
        /\ \A r1, r2 \in ReqIds :
             BothPatchedSameTask(req', r1, r2) =>
                 AwardMadeFor(req', r1) /\ AwardMadeFor(req', r2)
      ]_vars

\* Two requests fetched the same open task, both matched and patched it at
\* different scores, both are answered award-made, the task holds the score
\* of the second patch and the ledger holds two rows for the task.
C14_Witness ==
    \E r1, r2 \in ReqIds :
        /\ BothPatchedSameTask(req, r1, r2)
        /\ AwardMadeFor(req, r1) /\ AwardMadeFor(req, r2)
        /\ req[r1].xp # req[r2].xp
        /\ req[r1].patch_resp[1].XP = req[r1].xp
        /\ notion_pages[req[r2].match[1].task.id].XP = req[r2].xp
        /\ Len(ledger) = 2
        /\ ledger[1].Action = req[r1].match[1].task.title
        /\ ledger[2].Action = req[r2].match[1].task.title

====
